---- MODULE Spec2Model ----
(***************************************************************************)
(* A model of the CHIP-8 processor of chip8-emulator/src/lib.rs            *)
(* (struct Chip8Processor and its methods).  The machine is a record with  *)
(* the struct's fields; every method is an operator from a machine to the  *)
(* machine it leaves behind.  A Rust panic is recorded in the extra field  *)
(* `status`, together with whatever the method had already written.        *)
(***************************************************************************)
EXTENDS Integers, Sequences, FiniteSets, TLC

VARIABLES
    ram,              \* ram: [u8; 512]
    registers,        \* registers: [u8; 16]
    i_register,       \* i_register: u16
    program_counter,  \* program_counter: u16
    stack,            \* stack: [u16; 16]
    stack_ptr,        \* stack_ptr: u8
    keypad,           \* keypad: [bool; 16]
    display,          \* display: [bool; 64 * 32], kept as the set of lit positions
    delay_timer,      \* delay_timer: u8
    sound_timer,      \* sound_timer: u8
    status,           \* "running", or the panic that ended the last call
    overflow_checks,  \* build profile: TRUE = arithmetic overflow panics (debug),
                      \*                FALSE = it wraps (release)
    last,             \* history: the last operation and the machine before it
    call_log,         \* history: program counters pushed by calls not yet returned
    key_log,          \* history: per key, whether its latest event was a press
    steps             \* history: operations issued so far (bounded runs only)

vars == <<ram, registers, i_register, program_counter, stack, stack_ptr, keypad,
          display, delay_timer, sound_timer, status, overflow_checks, last,
          call_log, key_log, steps>>

----------------------------------------------------------------------------
(* Program constants *)

START_ADDRESS == 512
DISPLAY_MEM_WIDTH == 64
DISPLAY_MEM_HEIGHT == 32
RAM_LEN == 512
REGISTERS_LEN == 16
STACK_LEN == 16
KEYPAD_LEN == 16
SPRITE_BYTES == 80

U8 == 256
U16 == 65536

INTERPRETER_SPRITES ==
    << 240, 144, 144, 144, 240,    \* 0
        32,  96,  32,  32, 112,    \* 1
       240,  16, 240, 128, 240,    \* 2
       240,  16, 240,  16, 240,    \* 3
       144, 144, 240,  16,  16,    \* 4
       240, 128, 240,  16, 240,    \* 5
       240, 128, 240, 144, 240,    \* 6
       240,  16,  32,  64,  64,    \* 7
       240, 144, 240, 144, 240,    \* 8
       240, 144, 240,  16, 240,    \* 9
       240, 144, 240, 144, 144,    \* A
       224, 144, 224, 144, 224,    \* B
       240, 128, 128, 128, 240,    \* C
       224, 144, 144, 144, 224,    \* D
       240, 128, 240, 128, 240,    \* E
       240, 128, 240, 128, 128 >>  \* F

(* The panics the code can end in. *)
Running == "running"
StackOverflow == "Stack overflow!"
StackUnderflow == "Stack underflow!"
IndexOutOfBounds == "index out of bounds"
AddOverflow == "attempt to add with overflow"
SubOverflow == "attempt to subtract with overflow"
Unimplemented == "not implemented"

----------------------------------------------------------------------------
(* Bit operations on unsigned integers *)

RECURSIVE BitAnd(_, _)
BitAnd(a, b) ==
    IF a = 0 \/ b = 0 THEN 0
    ELSE (a % 2) * (b % 2) + 2 * BitAnd(a \div 2, b \div 2)

RECURSIVE BitOr(_, _)
BitOr(a, b) ==
    IF a = 0 THEN b
    ELSE IF b = 0 THEN a
    ELSE (IF a % 2 = 1 \/ b % 2 = 1 THEN 1 ELSE 0) + 2 * BitOr(a \div 2, b \div 2)

RECURSIVE BitXor(_, _)
BitXor(a, b) ==
    IF a = 0 THEN b
    ELSE IF b = 0 THEN a
    ELSE (((a % 2) + (b % 2)) % 2) + 2 * BitXor(a \div 2, b \div 2)

RECURSIVE Pow2(_)
Pow2(n) == IF n = 0 THEN 1 ELSE 2 * Pow2(n - 1)

(* The four 4-bit fields of an opcode, most significant first. *)
Digits(opcode) ==
    << BitAnd(opcode, 61440) \div 4096,
       BitAnd(opcode, 3840) \div 256,
       BitAnd(opcode, 240) \div 16,
       BitAnd(opcode, 15) >>

----------------------------------------------------------------------------
(* The machine *)

Machine ==
    [ ram |-> ram, registers |-> registers, i_register |-> i_register,
      program_counter |-> program_counter, stack |-> stack,
      stack_ptr |-> stack_ptr, keypad |-> keypad, display |-> display,
      delay_timer |-> delay_timer, sound_timer |-> sound_timer,
      status |-> status ]

new ==
    [ ram |-> [a \in 0..(RAM_LEN - 1) |->
                 IF a < SPRITE_BYTES THEN INTERPRETER_SPRITES[a + 1] ELSE 0],
      registers |-> [r \in 0..(REGISTERS_LEN - 1) |-> 0],
      i_register |-> 0,
      program_counter |-> START_ADDRESS,
      stack |-> [s \in 0..(STACK_LEN - 1) |-> 0],
      stack_ptr |-> 0,
      keypad |-> [k \in 0..(KEYPAD_LEN - 1) |-> FALSE],
      display |-> {},
      delay_timer |-> 0,
      sound_timer |-> 0,
      status |-> Running ]

Panic(m, msg) == [m EXCEPT !.status = msg]

(* u16 and u8 arithmetic with the `+=` / `-=` / `+` operators: a panic when *)
(* overflow checks are compiled in, a wrap when they are not.               *)
AddOverflows(a, b, width) == a + b >= width
SubOverflows(a, b) == a < b

(* push with the pointer advanced before the write instead of after it *)
push_preincrement(m, val) ==
    IF m.stack_ptr > STACK_LEN THEN Panic(m, StackOverflow)
    ELSE IF m.stack_ptr + 1 >= STACK_LEN THEN Panic(m, IndexOutOfBounds)
    ELSE [m EXCEPT !.stack[m.stack_ptr + 1] = val, !.stack_ptr = m.stack_ptr + 1]

push(m, val) ==
    IF m.stack_ptr > STACK_LEN THEN Panic(m, StackOverflow)
    ELSE IF m.stack_ptr >= STACK_LEN THEN Panic(m, IndexOutOfBounds)
    ELSE [m EXCEPT !.stack[m.stack_ptr] = val, !.stack_ptr = m.stack_ptr + 1]

(* pop without its underflow guard: stack_ptr -= 1 on a u8 that is 0 *)
pop_unguarded(m) ==
    IF m.stack_ptr = 0
    THEN IF overflow_checks
         THEN [m |-> Panic(m, SubOverflow), val |-> 0]
         ELSE [m |-> Panic([m EXCEPT !.stack_ptr = U8 - 1], IndexOutOfBounds),
               val |-> 0]
    ELSE [m |-> [m EXCEPT !.stack_ptr = m.stack_ptr - 1],
          val |-> m.stack[m.stack_ptr - 1]]

pop(m) ==
    IF m.stack_ptr = 0
    THEN [m |-> Panic(m, StackUnderflow), val |-> 0]
    ELSE [m |-> [m EXCEPT !.stack_ptr = m.stack_ptr - 1],
          val |-> m.stack[m.stack_ptr - 1]]

fetch(m) ==
    IF m.program_counter >= RAM_LEN
    THEN [status |-> IndexOutOfBounds, opcode |-> 0]
    ELSE IF AddOverflows(m.program_counter, 1, U16) /\ overflow_checks
    THEN [status |-> AddOverflow, opcode |-> 0]
    ELSE IF (m.program_counter + 1) % U16 >= RAM_LEN
    THEN [status |-> IndexOutOfBounds, opcode |-> 0]
    ELSE [status |-> Running,
          opcode |-> BitOr(m.ram[m.program_counter] * 256,
                           m.ram[(m.program_counter + 1) % U16])]

tick_timers(m) ==
    LET d == IF m.delay_timer > 0 THEN m.delay_timer - 1 ELSE m.delay_timer
        m1 == [m EXCEPT !.delay_timer = d]
    IN  IF d > 0
        THEN IF SubOverflows(m1.sound_timer, 1)
             THEN IF overflow_checks
                  THEN Panic(m1, SubOverflow)
                  ELSE [m1 EXCEPT !.sound_timer = U8 - 1]
             ELSE [m1 EXCEPT !.sound_timer = m1.sound_timer - 1]
        ELSE m1

(* pc += 2 of a taken skip; pc -= 2 of the key wait *)
SkipNext(m) ==
    IF AddOverflows(m.program_counter, 2, U16) /\ overflow_checks
    THEN Panic(m, AddOverflow)
    ELSE [m EXCEPT !.program_counter = (m.program_counter + 2) % U16]

StepBack(m) ==
    IF SubOverflows(m.program_counter, 2) /\ overflow_checks
    THEN Panic(m, SubOverflow)
    ELSE [m EXCEPT !.program_counter = (m.program_counter - 2) % U16]

SkipIf_negated(m, cond) == IF cond THEN m ELSE SkipNext(m)

SkipIf(m, cond) == IF cond THEN SkipNext(m) ELSE m

(* 8XY4 .. 8XYE: the flag is written first and VX second, except for the  *)
(* shifts, which write VX first and the flag second.                       *)
SetFlagThenX(m, x, flag, result) ==
    [m EXCEPT !.registers = [[@ EXCEPT ![15] = flag] EXCEPT ![x] = result]]

SetXThenFlag(m, x, result, flag) ==
    [m EXCEPT !.registers = [[@ EXCEPT ![x] = result] EXCEPT ![15] = flag]]

op_8xy4(m, x, y) ==
    LET sum == m.registers[x] + m.registers[y]
    IN  SetFlagThenX(m, x, IF sum >= U8 THEN 1 ELSE 0, sum % U8)

op_8xy5_flag_on_borrow(m, x, y) ==
    LET a == m.registers[x]
        b == m.registers[y]
    IN  SetFlagThenX(m, x, IF a < b THEN 1 ELSE 0, (a - b) % U8)

op_8xy5(m, x, y) ==
    LET a == m.registers[x]
        b == m.registers[y]
    IN  SetFlagThenX(m, x, IF a < b THEN 0 ELSE 1, (a - b) % U8)

op_8xy6(m, x) ==
    LET v == m.registers[x]
    IN  SetXThenFlag(m, x, v \div 2, BitAnd(v, 1))

op_8xy7(m, x, y) ==
    LET a == m.registers[x]
        b == m.registers[y]
    IN  SetFlagThenX(m, x, IF a < b THEN 0 ELSE 1, (a - b) % U8)

op_8xye(m, x) ==
    LET v == m.registers[x]
    IN  SetXThenFlag(m, x, (v * 2) % U8, BitAnd(v \div 128, 1))

(* DXYN.  The positions one sprite row toggles: its set bits, column 0    *)
(* being the most significant, wrapped around the display.                 *)
RowPositions_unwrapped(pixels, coord_x, coord_y, y_line) ==
    { (coord_x + x_line)
        + DISPLAY_MEM_WIDTH * ((coord_y + y_line) % DISPLAY_MEM_HEIGHT) :
      x_line \in { c \in 0..7 : BitAnd(pixels, 128 \div Pow2(c)) # 0 } }

RowPositions(pixels, coord_x, coord_y, y_line) ==
    { ((coord_x + x_line) % DISPLAY_MEM_WIDTH)
        + DISPLAY_MEM_WIDTH * ((coord_y + y_line) % DISPLAY_MEM_HEIGHT) :
      x_line \in { c \in 0..7 : BitAnd(pixels, 128 \div Pow2(c)) # 0 } }

RECURSIVE DrawRows(_, _, _, _, _, _)
DrawRows(m, coord_x, coord_y, rows, y_line, flipped) ==
    IF y_line >= rows
    THEN [m EXCEPT !.registers[15] = IF flipped THEN 1 ELSE 0]
    ELSE IF AddOverflows(m.i_register, y_line, U16) /\ overflow_checks
    THEN Panic(m, AddOverflow)
    ELSE LET row_address == (m.i_register + y_line) % U16
         IN  IF row_address >= RAM_LEN
             THEN Panic(m, IndexOutOfBounds)
             ELSE LET toggled == RowPositions(m.ram[row_address],
                                              coord_x, coord_y, y_line)
                  IN  DrawRows(
                        [m EXCEPT !.display = (@ \ toggled) \cup (toggled \ @)],
                        coord_x, coord_y, rows, y_line + 1,
                        flipped \/ (toggled \cap m.display # {}))

op_dxyn(m, x, y, rows) ==
    DrawRows(m, m.registers[x], m.registers[y], rows, 0, FALSE)

(* EX9E, EXA1: the keypad is indexed by the value of VX. *)
KeyIndexed(m, x) == m.keypad[m.registers[x]]

op_ex9e(m, x) ==
    IF m.registers[x] >= KEYPAD_LEN THEN Panic(m, IndexOutOfBounds)
    ELSE SkipIf(m, KeyIndexed(m, x))

op_exa1(m, x) ==
    IF m.registers[x] >= KEYPAD_LEN THEN Panic(m, IndexOutOfBounds)
    ELSE SkipIf(m, KeyIndexed(m, x))

(* FX0A: the first pressed key in index order, or KEYPAD_LEN if none. *)
RECURSIVE FirstPressed(_, _)
FirstPressed(keys, i) ==
    IF i >= KEYPAD_LEN THEN KEYPAD_LEN
    ELSE IF keys[i] THEN i
    ELSE FirstPressed(keys, i + 1)

op_fx0a(m, x) ==
    LET i == FirstPressed(m.keypad, 0)
    IN  IF i < KEYPAD_LEN
        THEN [m EXCEPT !.registers[x] = i]
        ELSE StepBack(m)

op_fx1e(m, x) ==
    IF AddOverflows(m.i_register, m.registers[x], U16) /\ overflow_checks
    THEN Panic(m, AddOverflow)
    ELSE [m EXCEPT !.i_register = (m.i_register + m.registers[x]) % U16]

(* FX33 computes in f32.  F32Scale(v, d) is the k with                    *)
(* 2^23 <= (v / d) * 2^k < 2^24, so that the f32 nearest to v / d is       *)
(* F32Mantissa * 2^(-k), and FloorF32Div is the integer part of that f32.  *)
RECURSIVE F32Scale(_, _, _)
F32Scale(v, d, k) ==
    IF v * Pow2(k) >= d * Pow2(23) THEN k ELSE F32Scale(v, d, k + 1)

F32Mantissa(v, d, k) ==
    LET n == v * Pow2(k)
        q == n \div d
        r == n % d
    IN  IF 2 * r > d \/ (2 * r = d /\ q % 2 = 1) THEN q + 1 ELSE q

FloorF32Div_nearest(v, d) ==
    IF v = 0 THEN 0
    ELSE LET k == F32Scale(v, d, 0)
         IN  (F32Mantissa(v, d, k) + Pow2(k - 1)) \div Pow2(k)

FloorF32Div(v, d) ==
    IF v = 0 THEN 0
    ELSE LET k == F32Scale(v, d, 0)
         IN  F32Mantissa(v, d, k) \div Pow2(k)

(* One indexed write or read of ram at i_register + offset. *)
RamAddress(m, offset) ==
    IF AddOverflows(m.i_register, offset, U16) /\ overflow_checks
    THEN [status |-> AddOverflow, address |-> 0]
    ELSE IF (m.i_register + offset) % U16 >= RAM_LEN
    THEN [status |-> IndexOutOfBounds, address |-> 0]
    ELSE [status |-> Running, address |-> (m.i_register + offset) % U16]

RamWrite(m, offset, byte) ==
    LET a == RamAddress(m, offset)
    IN  IF a.status # Running THEN Panic(m, a.status)
        ELSE [m EXCEPT !.ram[a.address] = byte]

op_fx33(m, x) ==
    LET reg_x == m.registers[x]
        hundreds == FloorF32Div(reg_x, 100)
        tens == FloorF32Div(reg_x, 10) % 10
        ones == reg_x % 10
        m1 == RamWrite(m, 0, hundreds)
        m2 == IF m1.status = Running THEN RamWrite(m1, 1, tens) ELSE m1
    IN  IF m2.status = Running THEN RamWrite(m2, 2, ones) ELSE m2

(* FX55 as coded: registers 0 .. x-1 are read from ram. *)
RECURSIVE op_fx55(_, _, _)
op_fx55(m, x, i) ==
    IF i >= x THEN m
    ELSE LET a == RamAddress(m, i)
         IN  IF a.status # Running THEN Panic(m, a.status)
             ELSE op_fx55([m EXCEPT !.registers[i] = m.ram[a.address]], x, i + 1)

(* FX65 as coded: registers 0 .. x-1 are written to ram. *)
RECURSIVE op_fx65(_, _, _)
op_fx65(m, x, i) ==
    IF i >= x THEN m
    ELSE LET m1 == RamWrite(m, i, m.registers[i])
         IN  IF m1.status # Running THEN m1
             ELSE op_fx65(m1, x, i + 1)

(* 0000: `return`, before anything is touched. *)
op_0000_advancing(m) == [m EXCEPT !.program_counter = (@ + 2) % U16]

op_0000(m) == m

op_00e0_first_row(m) ==
    [m EXCEPT !.display = { p \in @ : p >= DISPLAY_MEM_WIDTH }]

op_00e0(m) == [m EXCEPT !.display = {}]

op_00ee(m) ==
    LET r == pop(m)
    IN  IF r.m.status # Running THEN r.m
        ELSE [r.m EXCEPT !.program_counter = r.val]

op_2nnn(m, nnn) ==
    LET m1 == push(m, m.program_counter)
    IN  IF m1.status # Running THEN m1
        ELSE [m1 EXCEPT !.program_counter = nnn]

(* execute: the match on the four digits, arm by arm.  random_num is the  *)
(* u16 the random source yields for CXNN.                                  *)
execute(m, opcode, random_num) ==
    LET d == Digits(opcode)
        x == d[2]
        y == d[3]
        n == d[4]
        nn == BitAnd(opcode, 255)
        nnn == BitAnd(opcode, 4095)
    IN  CASE d = <<0, 0, 0, 0>> -> op_0000(m)
          [] d = <<0, 0, 14, 0>> -> op_00e0(m)
          [] d = <<0, 0, 14, 14>> -> op_00ee(m)
          [] d[1] = 1 -> [m EXCEPT !.program_counter = nnn]
          [] d[1] = 2 -> op_2nnn(m, nnn)
          [] d[1] = 3 -> SkipIf(m, m.registers[x] = nn)
          [] d[1] = 4 -> SkipIf(m, m.registers[x] # nn)
          [] d[1] = 5 /\ n = 0 -> SkipIf(m, m.registers[x] = m.registers[y])
          [] d[1] = 6 -> [m EXCEPT !.registers[x] = nn]
          [] d[1] = 7 -> [m EXCEPT !.registers[x] = (m.registers[x] + nn) % U8]
          [] d[1] = 8 /\ n = 0 -> [m EXCEPT !.registers[x] = m.registers[y]]
          [] d[1] = 8 /\ n = 1 ->
                [m EXCEPT !.registers[x] = BitOr(m.registers[x], m.registers[y])]
          [] d[1] = 8 /\ n = 2 ->
                [m EXCEPT !.registers[x] = BitAnd(m.registers[x], m.registers[y])]
          [] d[1] = 8 /\ n = 3 ->
                [m EXCEPT !.registers[x] = BitXor(m.registers[x], m.registers[y])]
          [] d[1] = 8 /\ n = 4 -> op_8xy4(m, x, y)
          [] d[1] = 8 /\ n = 5 -> op_8xy5(m, x, y)
          [] d[1] = 8 /\ n = 6 -> op_8xy6(m, x)
          [] d[1] = 8 /\ n = 7 -> op_8xy7(m, x, y)
          [] d[1] = 8 /\ n = 14 -> op_8xye(m, x)
          [] d[1] = 9 /\ n = 0 -> SkipIf(m, m.registers[x] # m.registers[y])
          [] d[1] = 10 -> [m EXCEPT !.i_register = nnn]
          [] d[1] = 11 -> [m EXCEPT !.program_counter = m.registers[0] + nnn]
          [] d[1] = 12 ->
                [m EXCEPT !.registers[x] = BitAnd(random_num, nn) % U8]
          [] d[1] = 13 -> op_dxyn(m, x, y, n)
          [] d[1] = 14 /\ y = 9 /\ n = 14 -> op_ex9e(m, x)
          [] d[1] = 14 /\ y = 10 /\ n = 1 -> op_exa1(m, x)
          [] d[1] = 15 /\ y = 0 /\ n = 7 ->
                [m EXCEPT !.registers[x] = m.delay_timer]
          [] d[1] = 15 /\ y = 0 /\ n = 10 -> op_fx0a(m, x)
          [] d[1] = 15 /\ y = 1 /\ n = 5 ->
                [m EXCEPT !.delay_timer = m.registers[x]]
          [] d[1] = 15 /\ y = 1 /\ n = 8 ->
                [m EXCEPT !.sound_timer = m.registers[x]]
          [] d[1] = 15 /\ y = 1 /\ n = 14 -> op_fx1e(m, x)
          [] d[1] = 15 /\ y = 2 /\ n = 9 ->
                [m EXCEPT !.i_register = m.registers[x] * 5]
          [] d[1] = 15 /\ y = 3 /\ n = 3 -> op_fx33(m, x)
          [] d[1] = 15 /\ y = 5 /\ n = 5 -> op_fx55(m, x, 0)
          [] d[1] = 15 /\ y = 6 /\ n = 5 -> op_fx65(m, x, 0)
          [] OTHER -> Panic(m, Unimplemented)

cycle(m, random_num) ==
    LET f == fetch(m)
    IN  IF f.status # Running THEN Panic(m, f.status)
        ELSE execute(m, f.opcode, random_num)

(* load_rom: byte i goes to START_ADDRESS + i; the first index outside    *)
(* ram panics, the bytes before it having been written.                    *)
RECURSIVE load_rom(_, _, _)
load_rom(m, rom, i) ==
    IF i >= Len(rom) THEN m
    ELSE IF START_ADDRESS + i >= RAM_LEN THEN Panic(m, IndexOutOfBounds)
    ELSE load_rom([m EXCEPT !.ram[START_ADDRESS + i] = rom[i + 1]], rom, i + 1)

press_key(m, id) == [m EXCEPT !.keypad[id] = TRUE]

release_key_all(m, id) ==
    [m EXCEPT !.keypad = [k \in 0..(KEYPAD_LEN - 1) |-> FALSE]]

release_key(m, id) == [m EXCEPT !.keypad[id] = FALSE]

----------------------------------------------------------------------------
(* The state machine: the driver (chip8-interface/src/main.rs) and the     *)
(* tests (chip8-emulator/src/tests.rs) call new, then cycle, execute,      *)
(* tick_timers, press_key, release_key and load_rom in any order.  A panic *)
(* ends the run.                                                            *)

Apply(m) ==
    /\ ram' = m.ram
    /\ registers' = m.registers
    /\ i_register' = m.i_register
    /\ program_counter' = m.program_counter
    /\ stack' = m.stack
    /\ stack_ptr' = m.stack_ptr
    /\ keypad' = m.keypad
    /\ display' = m.display
    /\ delay_timer' = m.delay_timer
    /\ sound_timer' = m.sound_timer
    /\ status' = m.status

NoOpcode == U16

(* Per key, the kind of the latest press_key / release_key issued for it. *)
KeysAfter(op, key) ==
    IF op = "press_key" THEN [key_log EXCEPT ![key] = TRUE]
    ELSE IF op = "release_key" THEN [key_log EXCEPT ![key] = FALSE]
    ELSE key_log

Did(op, opcode, key) ==
    /\ last' = [op |-> op, opcode |-> opcode, key |-> key, rom |-> <<>>,
                pre |-> Machine, log |-> call_log]
    /\ key_log' = KeysAfter(op, key)

DidLoad(rom) ==
    /\ last' = [op |-> "load_rom", opcode |-> NoOpcode, key |-> 0, rom |-> rom,
                pre |-> Machine, log |-> call_log]
    /\ key_log' = key_log

IsCall(opcode) == opcode # NoOpcode /\ Digits(opcode)[1] = 2
IsReturn(opcode) == opcode = \h00EE

(* The calls still open after a step that ran `opcode` and ended in status st. *)
LogAfter(opcode, st) ==
    IF st # Running THEN call_log
    ELSE IF IsCall(opcode) THEN Append(call_log, program_counter)
    ELSE IF IsReturn(opcode) /\ Len(call_log) > 0
    THEN SubSeq(call_log, 1, Len(call_log) - 1)
    ELSE call_log

Init ==
    /\ ram = new.ram
    /\ registers = new.registers
    /\ i_register = new.i_register
    /\ program_counter = new.program_counter
    /\ stack = new.stack
    /\ stack_ptr = new.stack_ptr
    /\ keypad = new.keypad
    /\ display = new.display
    /\ delay_timer = new.delay_timer
    /\ sound_timer = new.sound_timer
    /\ status = new.status
    /\ overflow_checks \in BOOLEAN
    /\ last = [op |-> "new", opcode |-> NoOpcode, key |-> 0, rom |-> <<>>,
               pre |-> new, log |-> <<>>]
    /\ call_log = <<>>
    /\ key_log = [k \in 0..(KEYPAD_LEN - 1) |-> FALSE]
    /\ steps = 0

Execute(opcode, random_num) ==
    /\ status = Running
    /\ LET m == execute(Machine, opcode, random_num)
       IN  /\ Apply(m)
           /\ call_log' = LogAfter(opcode, m.status)
    /\ Did("execute", opcode, 0)
    /\ UNCHANGED overflow_checks

Cycle(random_num) ==
    /\ status = Running
    /\ LET f == fetch(Machine)
           opcode == IF f.status = Running THEN f.opcode ELSE NoOpcode
           m == cycle(Machine, random_num)
       IN  /\ Apply(m)
           /\ call_log' = LogAfter(opcode, m.status)
           /\ Did("cycle", opcode, 0)
    /\ UNCHANGED overflow_checks

TickTimers ==
    /\ status = Running
    /\ Apply(tick_timers(Machine))
    /\ Did("tick_timers", NoOpcode, 0)
    /\ UNCHANGED <<overflow_checks, call_log>>

PressKey(id) ==
    /\ status = Running
    /\ Apply(press_key(Machine, id))
    /\ Did("press_key", NoOpcode, id)
    /\ UNCHANGED <<overflow_checks, call_log>>

ReleaseKey(id) ==
    /\ status = Running
    /\ Apply(release_key(Machine, id))
    /\ Did("release_key", NoOpcode, id)
    /\ UNCHANGED <<overflow_checks, call_log>>

LoadRom(rom) ==
    /\ status = Running
    /\ Apply(load_rom(Machine, rom, 0))
    /\ DidLoad(rom)
    /\ UNCHANGED <<overflow_checks, call_log>>

----------------------------------------------------------------------------
(* Bounded runs over every kind of opcode *)

MaxSteps == 3

Opcodes ==
    { \h0000, \h00E0, \h00EE, \h1006, \h1026, \h1050, \h2210,
      \h3000, \h4000, \h5010, \h9010,
      \h6005, \h6011, \h6102, \h60FF, \h7001,
      \h8010, \h8011, \h8012, \h8013, \h8014, \h8015, \h8016, \h8017, \h801E,
      \hA1FE, \hB002, \hC00F, \hD012,
      \hE09E, \hE0A1, \hF007, \hF00A, \hF015, \hF018, \hF01E, \hF029,
      \hF033, \hF255, \hF265, \h5011, \hF090 }

RandomInputs == { \h0000, \hA5C3, \hFFFF }

KeyInputs == { 0, 3, 15 }

Roms == { <<>>, << \h60, \h01 >> }

Budget ==
    /\ steps < MaxSteps
    /\ steps' = steps + 1

(* The random source is asked for a value by CXNN alone. *)
Draws(opcode) ==
    IF opcode # NoOpcode /\ Digits(opcode)[1] = 12 THEN RandomInputs ELSE {0}

Fetched == IF fetch(Machine).status = Running THEN fetch(Machine).opcode ELSE NoOpcode

ExecuteFrom(menu) ==
    \E opcode \in menu : \E random_num \in Draws(opcode) :
        Execute(opcode, random_num)

CycleOnce == \E random_num \in Draws(Fetched) : Cycle(random_num)

Next ==
    \/ Budget /\ ExecuteFrom(Opcodes)
    \/ Budget /\ CycleOnce
    \/ Budget /\ TickTimers
    \/ \E id \in KeyInputs : Budget /\ PressKey(id)
    \/ \E id \in KeyInputs : Budget /\ ReleaseKey(id)
    \/ \E rom \in Roms : Budget /\ LoadRom(rom)

Spec == Init /\ [][Next]_vars

----------------------------------------------------------------------------
(* Runs of calls and returns, to any depth.  The program varies its        *)
(* control flow (a second call target, a jump) in its outer                *)
(* MaxVariedDepth frames only; deeper frames call one target.              *)

MaxVariedDepth == 2

StackOpcodes == { \h2210, \h00EE }

VariedOpcodes == { \h2230, \h1300 }

NextStack ==
    \/ ExecuteFrom(StackOpcodes) /\ UNCHANGED steps
    \/ stack_ptr < MaxVariedDepth /\ ExecuteFrom(VariedOpcodes) /\ UNCHANGED steps

SpecStack == Init /\ [][NextStack]_vars

----------------------------------------------------------------------------
(* What the last operation was *)

Stepped == last.op \in {"cycle", "execute"} /\ last.opcode # NoOpcode
Completed == status = Running
Ticked == last.op = "tick_timers"

Field(i) == Digits(last.opcode)[i]
LastX == Field(2)
LastY == Field(3)
LastNN == BitAnd(last.opcode, 255)
LastNNN == BitAnd(last.opcode, 4095)

SteppedCall == Stepped /\ IsCall(last.opcode)
SteppedReturn == Stepped /\ IsReturn(last.opcode)

----------------------------------------------------------------------------
(* The opcode families the claims speak of *)

(* Clear display, load/add immediate, register copy, OR/AND/XOR, add, sub, *)
(* reverse sub, shifts, set address register, random, draw, read delay     *)
(* timer, set delay/sound timer, add to address register, font lookup,     *)
(* BCD, register store, register load.                                      *)
NonControlFlow(opcode) ==
    LET d == Digits(opcode)
    IN  \/ opcode = \h00E0
        \/ d[1] \in {6, 7, 10, 12, 13}
        \/ d[1] = 8 /\ d[4] \in {0, 1, 2, 3, 4, 5, 6, 7, 14}
        \/ d[1] = 15 /\ <<d[3], d[4]>> \in
              { <<0, 7>>, <<1, 5>>, <<1, 8>>, <<1, 14>>, <<2, 9>>,
                <<3, 3>>, <<5, 5>>, <<6, 5>> }

ConditionalSkip(opcode) ==
    LET d == Digits(opcode)
    IN  \/ d[1] \in {3, 4}
        \/ d[1] \in {5, 9} /\ d[4] = 0

(* 3XNN: VX == NN, 4XNN: VX != NN, 5XY0: VX == VY, 9XY0: VX != VY *)
SkipCondition(m, opcode) ==
    LET d == Digits(opcode)
        vx == m.registers[d[2]]
        vy == m.registers[d[3]]
        nn == BitAnd(opcode, 255)
    IN  CASE d[1] = 3 -> vx = nn
          [] d[1] = 4 -> vx # nn
          [] d[1] = 5 -> vx = vy
          [] d[1] = 9 -> vx # vy

WaitForKey(opcode) ==
    LET d == Digits(opcode)
    IN  d[1] = 15 /\ d[3] = 0 /\ d[4] = 10

SkipIfPressed(opcode) ==
    LET d == Digits(opcode)
    IN  d[1] = 14 /\ d[3] = 9 /\ d[4] = 14

SkipIfNotPressed(opcode) ==
    LET d == Digits(opcode)
    IN  d[1] = 14 /\ d[3] = 10 /\ d[4] = 1

PressedKeys(m) == { i \in 0..(KEYPAD_LEN - 1) : m.keypad[i] }

Lowest(S) == CHOOSE i \in S : \A j \in S : i <= j

(* A timer after one tick, as the timer-tick contract has it. *)
TickedDown(t) == IF t > 0 THEN t - 1 ELSE 0

----------------------------------------------------------------------------
(* Claims *)

(* C1: a completed step of an opcode that is not a control-flow transfer   *)
(* leaves the program counter exactly 2 greater than it was before.        *)
C1_StepAdvancesByTwo ==
    (Stepped /\ Completed /\ NonControlFlow(last.opcode))
        => program_counter = last.pre.program_counter + 2

(* C2: a step of a conditional skip (3XNN, 4XNN, 5XY0, 9XY0) leaves the    *)
(* program counter at its old value + 4 when the condition holds and at    *)
(* its old value + 2 when it does not.                                      *)
C2_SkipAdvancesByFourOrTwo ==
    (Stepped /\ Completed /\ ConditionalSkip(last.opcode))
        => program_counter = last.pre.program_counter
              + (IF SkipCondition(last.pre, last.opcode) THEN 4 ELSE 2)

(* C3: a step of the wait-for-key opcode FX0A with no key pressed leaves   *)
(* the program counter at that same instruction and changes no register.   *)
C3_KeyWaitStaysPut ==
    (Stepped /\ WaitForKey(last.opcode) /\ PressedKeys(last.pre) = {})
        => /\ program_counter = last.pre.program_counter
           /\ registers = last.pre.registers

(* C4: a step of FX0A with one or more keys pressed puts the lowest        *)
(* pressed key index into VX and advances the program counter by 2.        *)
C4_KeyWaitTakesLowestAndAdvances ==
    (Stepped /\ WaitForKey(last.opcode) /\ PressedKeys(last.pre) # {})
        => /\ registers[LastX] = Lowest(PressedKeys(last.pre))
           /\ program_counter = last.pre.program_counter + 2

(* The register half of C4 on its own. *)
KeyWaitTakesLowest ==
    (Stepped /\ WaitForKey(last.opcode) /\ PressedKeys(last.pre) # {})
        => registers[LastX] = Lowest(PressedKeys(last.pre))

(* C5: with VX in 0..15, EX9E skips exactly when keypad[VX] is pressed and *)
(* EXA1 skips exactly when it is not, so in any one state exactly one of   *)
(* the two skips.  A skip is the 2 the opcode itself adds to the program   *)
(* counter; the last conjunct compares the two opcodes on the same state.  *)
SkippedNext == program_counter = last.pre.program_counter + 2

C5_KeySkipsAreComplementary ==
    /\ (Stepped /\ Completed /\ SkipIfPressed(last.opcode)
          /\ last.pre.registers[LastX] < KEYPAD_LEN)
         => (SkippedNext <=> last.pre.keypad[last.pre.registers[LastX]])
    /\ (Stepped /\ Completed /\ SkipIfNotPressed(last.opcode)
          /\ last.pre.registers[LastX] < KEYPAD_LEN)
         => (SkippedNext <=> ~last.pre.keypad[last.pre.registers[LastX]])
    /\ (Completed /\ registers[0] < KEYPAD_LEN)
         => execute(Machine, \hE09E, 0).program_counter
              # execute(Machine, \hE0A1, 0).program_counter

(* C6: one tick leaves the delay timer at delay - 1 if delay > 0 else 0    *)
(* and the sound timer at sound - 1 if sound > 0 else 0, each whatever the *)
(* other timer holds.                                                       *)
C6_TimersTickIndependently ==
    Ticked => /\ delay_timer = TickedDown(last.pre.delay_timer)
              /\ sound_timer = TickedDown(last.pre.sound_timer)

(* C7: a tick always succeeds, never raises a timer, and leaves a timer    *)
(* that is 0 at 0.                                                          *)
C7_TickNeverFailsNorWraps ==
    Ticked => /\ Completed
              /\ delay_timer <= last.pre.delay_timer
              /\ sound_timer <= last.pre.sound_timer
              /\ (last.pre.delay_timer = 0 => delay_timer = 0)
              /\ (last.pre.sound_timer = 0 => sound_timer = 0)

(* C8: a call pushes the program counter it was executed at and jumps to   *)
(* its target; up to 16 calls nest; every return restores the program      *)
(* counter pushed by the matching call (last in, first out) and the stack  *)
(* pointer is back at the value it had before that call.                   *)
C8_CallReturnRoundTrip ==
    /\ (SteppedCall /\ last.pre.stack_ptr < STACK_LEN)
         => /\ Completed
            /\ stack[last.pre.stack_ptr] = last.pre.program_counter
            /\ stack_ptr = last.pre.stack_ptr + 1
            /\ program_counter = LastNNN
    /\ (SteppedReturn /\ Completed)
         => /\ Len(last.log) > 0
            /\ program_counter = last.log[Len(last.log)]
            /\ stack_ptr = Len(last.log) - 1
    /\ Completed
         => /\ stack_ptr = Len(call_log)
            /\ \A i \in 1..Len(call_log) : stack[i - 1] = call_log[i]

(* 16 nested calls with differing return addresses, all returned from. *)
C8_Witness ==
    /\ SteppedReturn /\ Completed
    /\ stack_ptr = 0
    /\ stack[STACK_LEN - 1] # 0
    /\ stack[0] # stack[1] /\ stack[1] # stack[2]

(* C9: a call with the stack pointer at 16 is reported as the stack        *)
(* overflow and leaves stack, stack pointer and program counter as they    *)
(* were; a call with the stack pointer in 0..15 never reports overflow.    *)
C9_CallOnFullStackIsOverflow ==
    /\ (SteppedCall /\ last.pre.stack_ptr = STACK_LEN)
         => /\ status = StackOverflow
            /\ stack = last.pre.stack
            /\ stack_ptr = last.pre.stack_ptr
            /\ program_counter = last.pre.program_counter
    /\ (SteppedCall /\ last.pre.stack_ptr < STACK_LEN)
         => status # StackOverflow

(* C10: a return with the stack pointer at 0 is reported as the stack      *)
(* underflow and leaves the stack pointer at 0 and the program counter     *)
(* unchanged.                                                               *)
C10_ReturnOnEmptyStackIsUnderflow ==
    (SteppedReturn /\ last.pre.stack_ptr = 0)
        => /\ status = StackUnderflow
           /\ stack_ptr = 0
           /\ program_counter = last.pre.program_counter

(* A return on a stack emptied by earlier returns, away from the origin. *)
C10_Witness ==
    /\ SteppedReturn
    /\ last.pre.stack_ptr = 0
    /\ status = StackUnderflow
    /\ last.pre.stack[0] # 0
    /\ program_counter # START_ADDRESS

----------------------------------------------------------------------------
(* C11: program loading *)

(* The capacity the ram's own comment names ("A 4096 bytes ram"). *)
CANONICAL_RAM_LEN == 4096

Loaded == last.op = "load_rom"

(* C11: load_rom of at most 4096 - 0x200 bytes succeeds, leaves byte i at  *)
(* 0x200 + i and every address below 0x200 as it was, and a step from the  *)
(* initial program counter then fetches the first two bytes.               *)
C11_LoadFitsCanonicalMemory ==
    (Loaded /\ Len(last.rom) <= CANONICAL_RAM_LEN - START_ADDRESS)
        => /\ Completed
           /\ \A i \in 0..(Len(last.rom) - 1) :
                /\ START_ADDRESS + i \in DOMAIN ram
                /\ ram[START_ADDRESS + i] = last.rom[i + 1]
           /\ \A a \in 0..(START_ADDRESS - 1) :
                a \in DOMAIN ram => ram[a] = last.pre.ram[a]
           /\ (Len(last.rom) >= 2 /\ program_counter = START_ADDRESS)
                => /\ fetch(Machine).status = Running
                   /\ fetch(Machine).opcode = last.rom[1] * 256 + last.rom[2]

----------------------------------------------------------------------------
(* Register arithmetic: a program loads V0 and V1, then runs up to         *)
(* MaxAluOps add / subtract instructions.                                  *)

MaxAluOps == 1

AluLoads == { \h6001, \h60C8, \h60FF, \h6101, \h61C8, \h61FF }

AluOpcodes ==
    { \h8014, \h8104, \h8004, \h80F4, \h8F04, \h8FF4,
      \h8015, \h8105, \h8005, \h80F5, \h8F05, \h8FF5,
      \h8017, \h8107, \h8007, \h80F7, \h8F07, \h8FF7 }

NextAlu ==
    \/ steps = 0 /\ ExecuteFrom(AluLoads) /\ UNCHANGED steps
    \/ steps < MaxAluOps /\ steps' = steps + 1 /\ ExecuteFrom(AluOpcodes)

SpecAlu == Init /\ [][NextAlu]_vars

(* The last step ran 8XY<low> to completion. *)
SteppedAlu(low) == Stepped /\ Completed /\ Field(1) = 8 /\ Field(4) = low

OldVX == last.pre.registers[LastX]
OldVY == last.pre.registers[LastY]

(* C12: after 8XY4, for every X and Y (15 included), VF is 1 if VX + VY    *)
(* exceeded 255 and 0 otherwise, and for X # 15 VX is the sum mod 256.     *)
C12_AddSetsCarryFlag ==
    SteppedAlu(4)
        => /\ registers[15] = (IF OldVX + OldVY > 255 THEN 1 ELSE 0)
           /\ LastX # 15 => registers[LastX] = (OldVX + OldVY) % U8

(* C13: after 8XY5 with X # 15, VX is (VX - VY) mod 256 and VF is 1 if the *)
(* old VX >= VY and 0 if the old VX < VY.                                  *)
C13_SubSetsNoBorrowFlag ==
    (SteppedAlu(5) /\ LastX # 15)
        => /\ registers[LastX] = (OldVX - OldVY) % U8
           /\ registers[15] = (IF OldVX >= OldVY THEN 1 ELSE 0)

(* An 8XY5 with X # 15 that borrowed. *)
C13_Witness == SteppedAlu(5) /\ LastX # 15 /\ OldVX < OldVY /\ registers[15] = 0

(* C14: after 8XY7 with X # 15, VX is (VY - VX) mod 256 and VF is 1 if the *)
(* old VY >= old VX and 0 otherwise.                                       *)
C14_ReverseSubTakesVYMinusVX ==
    (SteppedAlu(7) /\ LastX # 15)
        => /\ registers[LastX] = (OldVY - OldVX) % U8
           /\ registers[15] = (IF OldVY >= OldVX THEN 1 ELSE 0)

----------------------------------------------------------------------------
(* Drawing: a program sets the sprite data (V0 and its decimal digits at   *)
(* I), the coordinates V1, V2 and I, then runs up to MaxDraws draw and     *)
(* clear instructions.                                                     *)

MaxDraws == 2

DrawSetups == { \h60BB, \h613C, \h61FF, \h621E, \hA04B, \hF033 }

DrawOpcodes == { \hD120, \hD121, \hD125, \h00E0 }

NextDraw ==
    \/ steps = 0 /\ ExecuteFrom(DrawSetups) /\ UNCHANGED steps
    \/ steps < MaxDraws /\ steps' = steps + 1 /\ ExecuteFrom(DrawOpcodes)

SpecDraw == Init /\ [][NextDraw]_vars

(* The last step ran DXYN to completion. *)
SteppedDraw == Stepped /\ Completed /\ Field(1) = 13

(* Bit c (0 = most significant) of sprite row r, read before the draw. *)
SpriteBit(r, c) ==
    (last.pre.ram[last.pre.i_register + r] \div Pow2(7 - c)) % 2 = 1

(* The pixels the sprite of the last draw covers. *)
SpritePixels ==
    { ((OldVX + rc[2]) % 64) + 64 * ((OldVY + rc[1]) % 32) :
        rc \in { p \in (0..(Field(4) - 1)) \X (0..7) : SpriteBit(p[1], p[2]) } }

(* C15: DXYN XORs the pixel at column (VX + c) mod 64, row (VY + r) mod 32 *)
(* for each set bit c of row r < N, leaves every other pixel as it was,    *)
(* and sets VF to 1 if a pixel went from lit to unlit, else to 0; drawing  *)
(* the same sprite again at the same place restores the display, with VF   *)
(* = 1 whenever the sprite has a set bit.                                  *)
C15_DrawXorsWrapsAndFlagsCollision ==
    SteppedDraw
        => /\ display = (last.pre.display \ SpritePixels)
                            \cup (SpritePixels \ last.pre.display)
           /\ registers[15] =
                (IF SpritePixels \cap last.pre.display # {} THEN 1 ELSE 0)
           /\ LET again == execute(Machine, last.opcode, 0)
              IN  /\ again.display = last.pre.display
                  /\ SpritePixels # {} => again.registers[15] = 1

(* C15 (amended): as C15 for the XOR, the untouched pixels and VF; drawing *)
(* the same sprite again at the same place restores the display, with VF   *)
(* = 1 exactly when the first draw lit at least one pixel (so always on a  *)
(* display that was unlit under a sprite with a set bit).                  *)
C15_DrawXorsAndRedrawRestores ==
    SteppedDraw
        => /\ display = (last.pre.display \ SpritePixels)
                            \cup (SpritePixels \ last.pre.display)
           /\ \A p \in (0..(DISPLAY_MEM_WIDTH * DISPLAY_MEM_HEIGHT - 1)) \ SpritePixels :
                (p \in display) = (p \in last.pre.display)
           /\ registers[15] =
                (IF SpritePixels \cap last.pre.display # {} THEN 1 ELSE 0)
           /\ LET again == execute(Machine, last.opcode, 0)
              IN  /\ again.display = last.pre.display
                  /\ again.registers[15] =
                        (IF SpritePixels \ last.pre.display # {} THEN 1 ELSE 0)

(* The second draw of a five-row sprite that wraps on both axes: it hits   *)
(* every pixel of the first draw and leaves the display empty.             *)
C15_Witness ==
    /\ SteppedDraw
    /\ Field(4) = 5
    /\ OldVX = 60
    /\ OldVY = 30
    /\ \E p \in SpritePixels : p % 64 < 4 /\ p \div 64 < 2
    /\ last.pre.display = SpritePixels
    /\ display = {}
    /\ registers[15] = 1

----------------------------------------------------------------------------
(* Clearing: up to MaxClearSteps instructions and key presses that fill    *)
(* the display, a register, the delay timer, I, the stack and the keypad,  *)
(* and clear the display.                                                  *)

MaxClearSteps == 4

ClearOpcodes == { \h60BB, \h2210, \hF015, \hA04B, \hD005, \h00E0 }

NextClear ==
    \/ steps < MaxClearSteps /\ steps' = steps + 1 /\ ExecuteFrom(ClearOpcodes)
    \/ steps < MaxClearSteps /\ steps' = steps + 1 /\ PressKey(3)

SpecClear == Init /\ [][NextClear]_vars

(* The last step ran 00E0 to completion. *)
SteppedClear == Stepped /\ Completed /\ last.opcode = \h00E0

ApartFromProgramCounter(m) == [m EXCEPT !.program_counter = 0]

(* C19: 00E0 leaves all 64x32 pixels unlit whatever the display held,      *)
(* changes no register, I, memory byte, stack entry, stack pointer, timer  *)
(* or keypad flag, and a second clear right after it changes nothing       *)
(* (the program counter aside).                                            *)
C19_ClearResetsDisplayOnly ==
    SteppedClear
        => /\ \A p \in 0..(64 * 32 - 1) : p \notin display
           /\ display = {}
           /\ registers = last.pre.registers
           /\ i_register = last.pre.i_register
           /\ ram = last.pre.ram
           /\ stack = last.pre.stack
           /\ stack_ptr = last.pre.stack_ptr
           /\ delay_timer = last.pre.delay_timer
           /\ sound_timer = last.pre.sound_timer
           /\ keypad = last.pre.keypad
           /\ ApartFromProgramCounter(execute(Machine, \h00E0, 0))
                = ApartFromProgramCounter(Machine)

(* A clear of a lit display on a machine with a call open and a key held. *)
C19_Witness ==
    /\ SteppedClear
    /\ last.pre.display # {}
    /\ display = {}
    /\ stack_ptr > 0
    /\ keypad[3]

----------------------------------------------------------------------------
(* Decimal digits: a program loads V0 with any byte, sets I, then runs up  *)
(* to MaxBcdOps FX33 instructions.                                         *)

MaxBcdOps == 1

BcdLoads == { \h6000 + v : v \in 0..(U8 - 1) }

BcdAddresses == { \hA000, \hA050, \hA1FD, \hA1FE }

BcdOpcodes == { \hF033, \hF133 }

NextBcd ==
    \/ steps = 0 /\ steps' = 1 /\ ExecuteFrom(BcdLoads)
    \/ steps = 1 /\ steps' = 2 /\ ExecuteFrom(BcdAddresses)
    \/ steps >= 2 /\ steps < 2 + MaxBcdOps /\ steps' = steps + 1
         /\ ExecuteFrom(BcdOpcodes)

SpecBcd == Init /\ [][NextBcd]_vars

(* The last step ran FX33 to completion. *)
SteppedBcd ==
    Stepped /\ Completed /\ Field(1) = 15 /\ Field(3) = 3 /\ Field(4) = 3

(* C16: FX33 leaves VX div 100, (VX div 10) mod 10 and VX mod 10 at        *)
(* I, I + 1 and I + 2 for every VX in 0..255, and changes no other memory  *)
(* byte, no register and not I.                                            *)
C16_BcdIsExactDecomposition ==
    SteppedBcd
        => /\ ram[i_register] = OldVX \div 100
           /\ ram[i_register + 1] = (OldVX \div 10) % 10
           /\ ram[i_register + 2] = OldVX % 10
           /\ \A a \in DOMAIN ram \ { i_register, i_register + 1, i_register + 2 } :
                ram[a] = last.pre.ram[a]
           /\ registers = last.pre.registers
           /\ i_register = last.pre.i_register

(* The digits of 255 written to the last three bytes of memory. *)
C16_Witness ==
    /\ SteppedBcd
    /\ OldVX = 255
    /\ i_register = RAM_LEN - 3
    /\ ram[i_register] = 2
    /\ ram[i_register + 1] = 5
    /\ ram[i_register + 2] = 5

----------------------------------------------------------------------------
(* C17, C18: block store and block load *)

(* The last step ran FX55 / FX65 to completion with I .. I + X in memory. *)
SteppedBlock(low) ==
    /\ Stepped
    /\ Completed
    /\ Field(1) = 15
    /\ Field(3) = low
    /\ Field(4) = 5
    /\ last.pre.i_register + LastX < RAM_LEN

(* C17: FX55 leaves Vi at memory[I + i] for every i from 0 to X inclusive, *)
(* and changes no register and not I.                                      *)
C17_StoreWritesRegistersToMemory ==
    SteppedBlock(5)
        => /\ \A i \in 0..LastX :
                ram[last.pre.i_register + i] = last.pre.registers[i]
           /\ registers = last.pre.registers
           /\ i_register = last.pre.i_register

(* C18: FX65 sets Vi to memory[I + i] for every i from 0 to X inclusive    *)
(* and changes no register above X, no memory byte and not I; FX55         *)
(* followed by FX65 with the same X and I leaves V0..VX as they were       *)
(* stored.                                                                 *)
C18_LoadReadsRegistersFromMemory ==
    SteppedBlock(6)
        => /\ \A i \in 0..LastX :
                registers[i] = last.pre.ram[last.pre.i_register + i]
           /\ \A j \in (LastX + 1)..(REGISTERS_LEN - 1) :
                registers[j] = last.pre.registers[j]
           /\ ram = last.pre.ram
           /\ i_register = last.pre.i_register
           /\ LET stored == execute(last.pre, last.opcode - \h0010, 0)
                  loaded == execute(stored, last.opcode, 0)
              IN  \A i \in 0..LastX :
                    loaded.registers[i] = last.pre.registers[i]

----------------------------------------------------------------------------
(* Keys: up to MaxKeySteps key events, instructions, cycles and timer      *)
(* ticks in any order.  1050 moves the program counter to zeroed memory,   *)
(* where cycles complete.                                                  *)

MaxKeySteps == 3

KeyOpcodes == { \h1050, \hF00A, \hE09E, \hF015, \h00E0 }

KeyBudget ==
    /\ steps < MaxKeySteps
    /\ steps' = steps + 1

NextKeys ==
    \/ \E id \in KeyInputs : KeyBudget /\ PressKey(id)
    \/ \E id \in KeyInputs : KeyBudget /\ ReleaseKey(id)
    \/ KeyBudget /\ ExecuteFrom(KeyOpcodes)
    \/ KeyBudget /\ CycleOnce
    \/ KeyBudget /\ TickTimers

SpecKeys == Init /\ [][NextKeys]_vars

KeyEvent == last.op \in {"press_key", "release_key"}

(* C20: press_key(k) and release_key(k) always complete, leave keypad flag *)
(* k true respectively false and every other flag and all other machine    *)
(* state as it was; at any time each flag is the kind of the latest press  *)
(* or release issued for its key (false if none); no step or tick changes  *)
(* a flag.                                                                 *)
C20_KeypadFollowsLatestKeyEvent ==
    /\ keypad = key_log
    /\ KeyEvent
        => /\ Completed
           /\ keypad[last.key] = (last.op = "press_key")
           /\ \A j \in 0..15 : j # last.key => keypad[j] = last.pre.keypad[j]
           /\ Machine = [last.pre EXCEPT !.keypad = keypad]
    /\ (Stepped \/ Ticked \/ last.op \in {"cycle", "execute"})
        => keypad = last.pre.keypad

(* A release of one key while another is held, followed in the flags. *)
C20_Witness ==
    /\ last.op = "release_key"
    /\ last.key = 3
    /\ last.pre.keypad[3]
    /\ ~keypad[3]
    /\ keypad[15]
    /\ key_log[15]

----------------------------------------------------------------------------
(* C21: steps that leave memory part-way *)

(* The last step was a draw, FX33, FX55 or FX65. *)
SteppedMemoryBlock ==
    /\ Stepped
    /\ \/ Field(1) = 13
       \/ Field(1) = 15 /\ Field(3) = 3 /\ Field(4) = 3
       \/ Field(1) = 15 /\ Field(3) \in {5, 6} /\ Field(4) = 5

(* C21: a draw, FX33, FX55 or FX65 that meets an address beyond memory     *)
(* reports it and leaves the machine as it was before the step: no pixel   *)
(* toggled, no memory byte or register written.                            *)
C21_OutOfRangeStepIsAtomic ==
    (SteppedMemoryBlock /\ status = IndexOutOfBounds)
        => [Machine EXCEPT !.status = Running] = last.pre

----------------------------------------------------------------------------
(* C22: the stack after a return *)

(* C22: after a return the slot that held the popped address is 0, so that *)
(* whenever the stack pointer is 0 all sixteen stack entries are 0.        *)
C22_ReturnClearsPoppedSlot ==
    /\ (SteppedReturn /\ Completed) => stack[stack_ptr] = 0
    /\ stack_ptr = 0 => \A i \in 0..(STACK_LEN - 1) : stack[i] = 0

----------------------------------------------------------------------------
(* Skips called through execute: up to MaxSkipSteps register loads and     *)
(* skip instructions, those of test_opcode_3xkk, test_opcode_4xkk and      *)
(* test_opcode_5xy0 among them.                                            *)

MaxSkipSteps == 3

SkipLoads == { \h6523, \h6210, \h6F0A, \h600A }

SkipOpcodes == { \h3500, \h3523, \h4500, \h4210, \h5F00, \h5250 }

NextSkip ==
    \/ steps < MaxSkipSteps /\ steps' = steps + 1 /\ ExecuteFrom(SkipLoads)
    \/ steps < MaxSkipSteps /\ steps' = steps + 1 /\ ExecuteFrom(SkipOpcodes)

SpecSkip == Init /\ [][NextSkip]_vars

(* The last operation was execute of 3XNN, 4XNN or 5XY0. *)
ExecutedSkip ==
    /\ last.op = "execute"
    /\ Field(1) \in {3, 4} \/ (Field(1) = 5 /\ Field(4) = 0)

(* C23: execute of 3XNN, 4XNN or 5XY0 with the program counter at p leaves *)
(* it at p + 2 when the condition (VX == NN, VX != NN, VX == VY) holds and *)
(* at p when it does not, and changes no register.                         *)
C23_ExecutedSkipAddsTwoOrNothing ==
    ExecutedSkip
        => /\ Completed
           /\ program_counter = last.pre.program_counter
                + (IF SkipCondition(last.pre, last.opcode) THEN 2 ELSE 0)
           /\ registers = last.pre.registers

(* 3523 executed with V5 = 0x23, after an earlier skip had moved the       *)
(* program counter.                                                        *)
C23_Witness ==
    /\ ExecutedSkip
    /\ last.opcode = \h3523
    /\ last.pre.registers[5] = \h23
    /\ last.pre.program_counter = START_ADDRESS + 2
    /\ program_counter = START_ADDRESS + 4

----------------------------------------------------------------------------
(* No-operation: up to MaxNopSteps instructions and key presses that fill  *)
(* every component of the machine, with 0000 among them.                   *)

MaxNopSteps == 3

NopOpcodes == { \h0000, \h60BB, \h2210, \hF015, \hF018, \hA04B, \hD005 }

NextNop ==
    \/ steps < MaxNopSteps /\ steps' = steps + 1 /\ ExecuteFrom(NopOpcodes)
    \/ steps < MaxNopSteps /\ steps' = steps + 1 /\ PressKey(3)

SpecNop == Init /\ [][NextNop]_vars

ExecutedNop == last.op = "execute" /\ last.opcode = \h0000

(* C24: execute(0x0000) leaves memory, registers, I, the program counter,  *)
(* the stack, the stack pointer, the keypad, the display and the timers as *)
(* they were; on a fresh machine the result is a fresh machine.            *)
C24_NopChangesNothing ==
    ExecutedNop
        => /\ Completed
           /\ ram = last.pre.ram
           /\ registers = last.pre.registers
           /\ i_register = last.pre.i_register
           /\ program_counter = last.pre.program_counter
           /\ stack = last.pre.stack
           /\ stack_ptr = last.pre.stack_ptr
           /\ keypad = last.pre.keypad
           /\ display = last.pre.display
           /\ delay_timer = last.pre.delay_timer
           /\ sound_timer = last.pre.sound_timer
           /\ last.pre = new => Machine = new

(* 0000 executed inside a subroutine with a lit display. *)
C24_Witness ==
    /\ ExecutedNop
    /\ stack_ptr > 0
    /\ program_counter = \h210
    /\ display # {}

----------------------------------------------------------------------------
(* C25: stack indices *)

(* The index of the stack access of the last step: push passes its guard   *)
(* (stack_ptr > 16 is the only refusal) and writes stack[stack_ptr]; pop   *)
(* past its guard reads stack[stack_ptr - 1]; 0 where no access was made.  *)
StackIndexUsed ==
    IF SteppedCall /\ ~(last.pre.stack_ptr > STACK_LEN)
    THEN last.pre.stack_ptr
    ELSE IF SteppedReturn /\ last.pre.stack_ptr # 0
    THEN last.pre.stack_ptr - 1
    ELSE 0

(* C25: in every reachable state, states after a failed step included, the *)
(* stack pointer is in 0..16 and every stack access used an index in       *)
(* 0..15.                                                                  *)
C25_StackPointerAndIndicesInRange ==
    /\ stack_ptr \in 0..16
    /\ StackIndexUsed \in 0..15

----------------------------------------------------------------------------
(* Adding to I: a program sets I to 0xFFF and V0 to 0xFF, then runs up to  *)
(* MaxAddSteps FX1E instructions; the 241st carries I past 0xFFFF.         *)

MaxAddSteps == 245

AddSetups == { \hAFFF, \h60FF }

AddOpcodes == { \hF01E }

NextAdd ==
    \/ steps = 0 /\ ExecuteFrom(AddSetups) /\ UNCHANGED steps
    \/ steps < MaxAddSteps /\ steps' = steps + 1 /\ ExecuteFrom(AddOpcodes)

SpecAdd == Init /\ [][NextAdd]_vars

SteppedAddToI == Stepped /\ Field(1) = 15 /\ Field(3) = 1 /\ Field(4) = 14

(* C26: FX1E leaves (I + VX) mod 65536 in I for every 16-bit I and every   *)
(* VX, never fails, and changes neither VX nor the flag register.          *)
C26_AddToIWraps ==
    SteppedAddToI
        => /\ Completed
           /\ i_register = (last.pre.i_register + OldVX) % 65536
           /\ registers[LastX] = OldVX
           /\ registers[15] = last.pre.registers[15]

----------------------------------------------------------------------------
(* C27: what a step may fail for *)

(* The last step ran a key opcode: EX9E, EXA1 or FX0A.  These are in the   *)
(* opcode table and touch neither memory nor the stack.                    *)
SteppedKeyOpcode ==
    /\ Stepped
    /\ \/ SkipIfPressed(last.opcode)
       \/ SkipIfNotPressed(last.opcode)
       \/ WaitForKey(last.opcode)

(* C27: a step fails only for stack overflow, stack underflow, a memory    *)
(* address beyond capacity or an unknown opcode; in particular EX9E / EXA1 *)
(* with VX above 15 and FX0A at any program counter complete.              *)
C27_KeyOpcodesNeverFail ==
    SteppedKeyOpcode => Completed

====
